---------------------------- MODULE Spec2Model ----------------------------
(***************************************************************************)
(* A model of rust-wasm/src/lib.rs: the TradeScanner of the market         *)
(* arbitrage scanner.  scan_opportunities decodes a list of MarketData     *)
(* quotes, groups them by item_id in a HashMap, evaluates every ordered    *)
(* pair of quotes of one item, keeps the opportunities whose roi reaches   *)
(* min_roi, sorts them by roi descending and truncates to max_results.     *)
(*                                                                         *)
(* Numbers.  The code computes in f64.  An f64 is modelled as an exact     *)
(* rational in lowest terms, or one of NaN, +infinity, -infinity, with     *)
(* the IEEE 754 rules for the three special values (NaN compares false     *)
(* with everything, inf - inf = NaN, ...).  Rounding and the overflow of   *)
(* finite operands are not modelled.                                       *)
(***************************************************************************)
EXTENDS Integers, Sequences, FiniteSets, TLC

VARIABLES
    scanner,    \* the TradeScanner: [market_tax, setup_fee]
    args,       \* the arguments of the latest scan_opportunities call
    outcome,    \* what that call returned
    prev,       \* arguments and outcome of the call before it
    calls,      \* number of completed calls
    probe       \* one application of estimate_transport_cost

vars == <<scanner, args, outcome, prev, calls, probe>>

---------------------------------------------------------------------------
(* f64 *)

Abs(i) == IF i < 0 THEN -i ELSE i

RECURSIVE Gcd(_, _)
Gcd(a, b) == IF b = 0 THEN a ELSE Gcd(b, a % b)

\* The rational n/d (d # 0) in lowest terms with a positive denominator.
Rat(n, d) ==
    LET g == Gcd(Abs(n), Abs(d))
        s == IF d < 0 THEN -1 ELSE 1
    IN  [k |-> "num", n |-> (s * n) \div g, d |-> Abs(d) \div g]

Num(i) == [k |-> "num", n |-> i, d |-> 1]
NaN == [k |-> "nan", n |-> 0, d |-> 1]
PosInf == [k |-> "inf", n |-> 1, d |-> 1]
NegInf == [k |-> "inf", n |-> -1, d |-> 1]

IsNaN(x) == x.k = "nan"
IsNum(x) == x.k = "num"
Sgn(x) == IF x.n > 0 THEN 1 ELSE IF x.n < 0 THEN -1 ELSE 0
Inf(s) == IF s > 0 THEN PosInf ELSE NegInf

FNeg(x) == IF IsNaN(x) THEN NaN ELSE [x EXCEPT !.n = -x.n]

FAdd(x, y) ==
    IF IsNaN(x) \/ IsNaN(y) THEN NaN
    ELSE IF IsNum(x) /\ IsNum(y) THEN Rat(x.n * y.d + y.n * x.d, x.d * y.d)
    ELSE IF IsNum(x) THEN y
    ELSE IF IsNum(y) THEN x
    ELSE IF x = y THEN x ELSE NaN

FSub(x, y) == FAdd(x, FNeg(y))

FMul(x, y) ==
    IF IsNaN(x) \/ IsNaN(y) THEN NaN
    ELSE IF IsNum(x) /\ IsNum(y) THEN Rat(x.n * y.n, x.d * y.d)
    ELSE IF Sgn(x) = 0 \/ Sgn(y) = 0 THEN NaN
    ELSE Inf(Sgn(x) * Sgn(y))

FDiv(x, y) ==
    IF IsNaN(x) \/ IsNaN(y) THEN NaN
    ELSE IF IsNum(x) /\ IsNum(y) THEN
        IF y.n # 0 THEN Rat(x.n * y.d, x.d * y.n)
        ELSE IF x.n = 0 THEN NaN ELSE Inf(Sgn(x))
    ELSE IF IsNum(x) THEN Num(0)
    ELSE IF IsNum(y) THEN Inf(Sgn(x) * (IF Sgn(y) < 0 THEN -1 ELSE 1))
    ELSE NaN

\* x < y on two values that are not NaN.
Below(x, y) ==
    IF IsNum(x) /\ IsNum(y) THEN x.n * y.d < y.n * x.d
    ELSE IF IsNum(x) THEN Sgn(y) > 0
    ELSE IF IsNum(y) THEN Sgn(x) < 0
    ELSE Sgn(x) < Sgn(y)

FLt(x, y) == ~IsNaN(x) /\ ~IsNaN(y) /\ Below(x, y)
FGt(x, y) == FLt(y, x)
FEq(x, y) == ~IsNaN(x) /\ ~IsNaN(y) /\ x = y
FLe(x, y) == FLt(x, y) \/ FEq(x, y)
FGe(x, y) == FLe(y, x)

\* f64::partial_cmp
partial_cmp(x, y) ==
    IF IsNaN(x) \/ IsNaN(y) THEN "None"
    ELSE IF Below(x, y) THEN "Less"
    ELSE IF Below(y, x) THEN "Greater"
    ELSE "Equal"

\* f64::max: the other operand when one is NaN.
f64_max(x, y) ==
    IF IsNaN(x) THEN y
    ELSE IF IsNaN(y) THEN x
    ELSE IF Below(x, y) THEN y ELSE x

\* u32::min
u32_min(a, b) == IF a <= b THEN a ELSE b

---------------------------------------------------------------------------
(* TradeScanner *)

TradeScanner_new ==
    [market_tax |-> Rat(45, 1000), setup_fee |-> Rat(15, 1000)]

CaerleonRoutes ==
    { <<"Caerleon", "Bridgewatch">>, <<"Bridgewatch", "Caerleon">>,
      <<"Caerleon", "Lymhurst">>, <<"Lymhurst", "Caerleon">>,
      <<"Caerleon", "Martlock">>, <<"Martlock", "Caerleon">>,
      <<"Caerleon", "Fort Sterling">>, <<"Fort Sterling", "Caerleon">>,
      <<"Caerleon", "Thetford">>, <<"Thetford", "Caerleon">> }

\* The reverse arms of the match left out.
distance_one_way(from_city, to_city) ==
    IF from_city = "Caerleon" /\ <<from_city, to_city>> \in CaerleonRoutes
    THEN 8 ELSE 12

distance(from_city, to_city) ==
    IF <<from_city, to_city>> \in CaerleonRoutes THEN 8 ELSE 12

\* 1 silver per zone instead of 100.
transport_cost_per_zone(self, from_city, to_city, quantity) ==
    LET weight_factor == f64_max(FDiv(quantity, Num(100)), Num(1))
    IN  FMul(Num(distance(from_city, to_city)), weight_factor)

estimate_transport_cost(self, from_city, to_city, quantity) ==
    LET weight_factor == f64_max(FDiv(quantity, Num(100)), Num(1))
    IN  FMul(FMul(Num(distance(from_city, to_city)), Num(100)), weight_factor)

roi_of(profit, total_cost) ==
    IF FGt(total_cost, Num(0))
    THEN FMul(FDiv(profit, total_cost), Num(100))
    ELSE Num(0)

calculate_opportunity(self, item_id, item_name, buy_city, sell_city, buy_price, sell_price, quantity) ==
    LET qty == Num(quantity)
        buy_total == FMul(buy_price, qty)
        buy_taxes == FMul(buy_total, FAdd(self.market_tax, self.setup_fee))
        transport_cost == estimate_transport_cost(self, buy_city, sell_city, qty)
        total_cost == FAdd(FAdd(buy_total, buy_taxes), transport_cost)
        sell_total == FMul(sell_price, qty)
        sell_taxes == FMul(sell_total, FAdd(self.market_tax, self.setup_fee))
        net_revenue == FSub(sell_total, sell_taxes)
        profit == FSub(net_revenue, total_cost)
    IN  [item_id |-> item_id,
         item_name |-> item_name,
         buy_city |-> buy_city,
         sell_city |-> sell_city,
         buy_price |-> buy_price,
         sell_price |-> sell_price,
         quantity |-> quantity,
         profit |-> profit,
         roi |-> roi_of(profit, total_cost),
         taxes |-> FAdd(buy_taxes, sell_taxes),
         transport_cost |-> transport_cost]


\* serde_wasm_bindgen::from_value: a JsValue either decodes into a
\* Vec<MarketData> or does not.
from_value(market_data_js) ==
    IF market_data_js.decodes
    THEN [ok |-> TRUE, value |-> market_data_js.data]
    ELSE [ok |-> FALSE, value |-> <<>>]

\* The keys of items_by_id and the Vec<&MarketData> of one key, in the
\* order the quotes were pushed.
item_keys(market_data) ==
    { market_data[i].item_id : i \in DOMAIN market_data }

items_by_id(market_data, item_id) ==
    SelectSeq(market_data, LAMBDA q : q.item_id = item_id)

\* HashMap::iter visits the keys in an order the program does not fix
\* (std's RandomState takes fresh SipHash keys for every map).
IterationOrders(keys) ==
    { o \in [1..Cardinality(keys) -> keys] :
        \A i, j \in DOMAIN o : i # j => o[i] # o[j] }

same_city(buy_city_data, sell_city_data) ==
    buy_city_data.city = sell_city_data.city

no_price(buy_price, sell_price) ==
    FLe(buy_price, Num(0)) \/ FLe(sell_price, Num(0))

\* The comparison turned round.
below_min_roi(roi, min_roi) == FLe(roi, min_roi)

\* `!(roi < min_roi)` for `roi >= min_roi`: the same but for NaN.
not_below_min_roi(roi, min_roi) == ~FLt(roi, min_roi)

reaches_min_roi(roi, min_roi) == FGe(roi, min_roi)

\* The body of the innermost loop: what one (buy, sell) pair pushes.
pair_step(self, item_id, buy_city_data, sell_city_data, min_roi) ==
    IF same_city(buy_city_data, sell_city_data) THEN <<>>
    ELSE IF no_price(buy_city_data.buy_price, sell_city_data.sell_price)
    THEN <<>>
    ELSE LET quantity ==
                 u32_min(buy_city_data.quantity, sell_city_data.quantity)
         IN  IF quantity = 0 THEN <<>>
             ELSE LET opportunity ==
                          calculate_opportunity(self, item_id,
                              buy_city_data.item_name, buy_city_data.city,
                              sell_city_data.city, buy_city_data.buy_price,
                              sell_city_data.sell_price, quantity)
                  IN  IF reaches_min_roi(opportunity.roi, min_roi)
                      THEN <<opportunity>> ELSE <<>>

\* The two loops over one item's quotes, pair k of Len(cities)^2 onwards.
RECURSIVE pair_loop(_, _, _, _, _)
pair_loop(self, item_id, cities, min_roi, k) ==
    LET n == Len(cities) IN
    IF k > n * n THEN <<>>
    ELSE pair_step(self, item_id, cities[((k - 1) \div n) + 1],
                   cities[((k - 1) % n) + 1], min_roi)
         \o pair_loop(self, item_id, cities, min_roi, k + 1)

\* The loop over the map: the opportunities pushed, in push order.
RECURSIVE item_loop(_, _, _, _, _)
item_loop(self, market_data, min_roi, order, g) ==
    IF g > Len(order) THEN <<>>
    ELSE pair_loop(self, order[g], items_by_id(market_data, order[g]),
                   min_roi, 1)
         \o item_loop(self, market_data, min_roi, order, g + 1)

\* a and b swapped: ascending.
compare_ascending(a, b) == partial_cmp(a.roi, b.roi)

\* The closure given to sort_by; unwrap panics on None.
compare(a, b) == partial_cmp(b.roi, a.roi)

\* One insertion of the stable sort: x moves left past every element it is
\* Less than.  [panicked, v].
RECURSIVE insert_tail(_, _)
insert_tail(sorted, x) ==
    IF sorted = <<>> THEN [panicked |-> FALSE, v |-> <<x>>]
    ELSE LET last == sorted[Len(sorted)]
             c == compare(x, last)
         IN  IF c = "None" THEN [panicked |-> TRUE, v |-> <<>>]
             ELSE IF c = "Less"
             THEN LET r == insert_tail(SubSeq(sorted, 1, Len(sorted) - 1), x)
                  IN  [panicked |-> r.panicked,
                       v |-> IF r.panicked THEN <<>> ELSE Append(r.v, last)]
             ELSE [panicked |-> FALSE, v |-> Append(sorted, x)]

RECURSIVE sort_by(_, _)
sort_by(v, n) ==
    IF n = 0 THEN [panicked |-> FALSE, v |-> <<>>]
    ELSE LET r == sort_by(v, n - 1)
         IN  IF r.panicked THEN r ELSE insert_tail(r.v, v[n])

\* One entry too many.
truncate_off_by_one(v, len) == IF len + 1 < Len(v) THEN SubSeq(v, 1, len + 1) ELSE v

truncate(v, len) == IF len < Len(v) THEN SubSeq(v, 1, len) ELSE v

Ok(v) == [kind |-> "ok", value |-> v]
Err(msg) == [kind |-> msg, value |-> <<>>]
Panic == [kind |-> "panic", value |-> <<>>]
NoOutcome == [kind |-> "pending", value |-> <<>>]

\* scan_opportunities, given the order the map is iterated in.  to_value
\* has no failing case on a Vec of records of strings, f64 and u32, so the
\* "Failed to serialize results" error is not an outcome.
scan_opportunities(self, market_data_js, min_roi, max_results, order) ==
    LET market_data == from_value(market_data_js) IN
    IF ~market_data.ok THEN Err("Failed to parse market data")
    ELSE LET opportunities ==
                 item_loop(self, market_data.value, min_roi, order, 1)
             sorted == sort_by(opportunities, Len(opportunities))
         IN  IF sorted.panicked THEN Panic
             ELSE Ok(truncate(sorted.v, max_results))

---------------------------------------------------------------------------
(* The calls the model makes *)

MaxQuotes == 3          \* quotes in one snapshot, ranking runs
MaxIeeeQuotes == 3      \* quotes in one snapshot, special-value runs
MaxCalls == 2           \* calls on one scanner, repeated-call runs

MarketData(item_id, city, buy_price, sell_price, quantity) ==
    [item_id |-> item_id, item_name |-> item_id, city |-> city,
     buy_price |-> buy_price, sell_price |-> sell_price, quantity |-> quantity]

Decoded(market_data) == [decodes |-> TRUE, data |-> market_data]
Malformed == [decodes |-> FALSE, data |-> <<>>]

ListsOver(quotes, n) == UNION { [1..m -> quotes] : m \in 0..n }

\* The quotes of a set in every order.
Arrangements(quotes) ==
    { l \in [1..Cardinality(quotes) -> quotes] :
        \A i, j \in DOMAIN l : i # j => l[i] # l[j] }

CallsOver(lists, min_rois, caps) ==
    [market_data_js : {Decoded(l) : l \in lists} \cup {Malformed},
     min_roi : min_rois,
     max_results : caps]

\* Ranking runs: decimal quotes of two items in three cities, in snapshots
\* of up to MaxQuotes quotes and in the two-item snapshots of four.  XA and
\* XB are the two quotes of Scenario A; XA->XC and YA->YC have the same
\* roi, as have XA->XC and XC->XD; XZ has no buy price and nothing to trade.
XA == MarketData("X", "CityA", Num(100), Num(0), 50)
XB == MarketData("X", "CityB", Num(0), Num(150), 30)
XC == MarketData("X", "CityB", Num(100), Num(400), 30)
XD == MarketData("X", "CityC", Num(150), Num(400), 50)
YA == MarketData("Y", "CityA", Num(100), Num(0), 50)
YC == MarketData("Y", "CityB", Num(100), Num(400), 30)
XZ == MarketData("X", "CityA", Num(-1), Num(400), 0)

Quotes == {XA, XB, XC, XD, YA, YC, XZ}
MinRois == {Num(0), Num(-5), Num(200), NaN}
ResultCaps == {0, 1, 2}
TwoItemSnapshots ==
    Arrangements({XA, XC, YA, YC}) \cup Arrangements({XA, XD, YA, YC})
Inputs ==
    CallsOver(ListsOver(Quotes, MaxQuotes) \cup TwoItemSnapshots,
              MinRois, ResultCaps)

\* Special-value runs: a JS number decodes into any f64, NaN and the
\* infinities included, as a price and as min_roi.  (A finite price whose
\* product with the quantity overflows behaves as the infinite one.)
IeeeBuyPrices == {Num(100), NaN, PosInf}
IeeeSellPrices == {Num(400), NaN}
IeeeQuotes ==
    { MarketData("X", c, b, s, q) :
        c \in {"CityA", "CityB"}, b \in IeeeBuyPrices, s \in IeeeSellPrices,
        q \in {30} }
IeeeMinRois == {Num(0), NaN, NegInf}
IeeeInputs ==
    CallsOver(ListsOver(IeeeQuotes, MaxIeeeQuotes), IeeeMinRois, {2})

\* Repeated-call runs: snapshots without a repeated quote.
SeqQuotes == {XA, XC, YA, YC}
SeqLists ==
    { l \in ListsOver(SeqQuotes, Cardinality(SeqQuotes)) :
        \A i, j \in DOMAIN l : i # j => l[i] # l[j] }
SeqInputs == CallsOver(SeqLists, {Num(0)}, {1, 2})

NoCall == [args |-> [market_data_js |-> Malformed, min_roi |-> NaN, max_results |-> 0], outcome |-> NoOutcome]
NoProbe == [from_city |-> "", to_city |-> "", quantity |-> 0, cost |-> NaN, done |-> TRUE]

\* A constructed scanner and the arguments of its first call.
InitWith(inputs) ==
    /\ scanner = TradeScanner_new
    /\ args \in inputs
    /\ outcome = NoOutcome
    /\ prev = NoCall
    /\ calls = 0
    /\ probe = NoProbe

Init == InitWith(Inputs)
InitIeee == InitWith(IeeeInputs)
InitSeq == InitWith(SeqInputs)

\* One scan_opportunities call on the arguments in args.
Scan ==
    /\ outcome = NoOutcome
    /\ \E order \in IterationOrders(item_keys(args.market_data_js.data)) :
          outcome' = scan_opportunities(scanner, args.market_data_js,
                                        args.min_roi, args.max_results, order)
    /\ calls' = calls + 1
    /\ UNCHANGED <<scanner, args, prev, probe>>

\* The host calls the same scanner again.
CallAgain ==
    /\ outcome # NoOutcome
    /\ calls < MaxCalls
    /\ \E input \in SeqInputs : args' = input
    /\ prev' = [args |-> args, outcome |-> outcome]
    /\ outcome' = NoOutcome
    /\ UNCHANGED <<scanner, calls, probe>>

Next == Scan
NextSeq == Scan \/ CallAgain

Spec == Init /\ [][Next]_vars
SpecIeee == InitIeee /\ [][Next]_vars
SpecSeq == InitSeq /\ [][NextSeq]_vars

\* estimate_transport_cost on its own.
TransportCities ==
    {"Caerleon", "Bridgewatch", "Lymhurst", "Martlock", "Fort Sterling",
     "Thetford", "CityA", "caerleon"}
TransportQuantities == {0, 1, 50, 99, 100, 101, 150, 250, 1000}

InitTransport ==
    /\ scanner = TradeScanner_new
    /\ args = NoCall.args
    /\ outcome = NoOutcome
    /\ prev = NoCall
    /\ calls = 0
    /\ probe \in [from_city : TransportCities, to_city : TransportCities,
                  quantity : TransportQuantities, cost : {NaN}, done : {FALSE}]

EstimateTransport ==
    /\ ~probe.done
    /\ probe' = [probe EXCEPT
                   !.cost = estimate_transport_cost(scanner, probe.from_city,
                                probe.to_city, Num(probe.quantity)),
                   !.done = TRUE]
    /\ UNCHANGED <<scanner, args, outcome, prev, calls>>

NextTransport == EstimateTransport
SpecTransport == InitTransport /\ [][NextTransport]_vars

---------------------------------------------------------------------------
(* What the claims speak of *)

Returned == outcome.kind = "ok"
Value == outcome.value
Snapshot == args.market_data_js.data

Min(a, b) == IF a <= b THEN a ELSE b

\* Ordered pairs of quotes of one item, by position in the snapshot.
PairsOf(md) ==
    { p \in (DOMAIN md) \X (DOMAIN md) : md[p[1]].item_id = md[p[2]].item_id }

\* The pair passes the three validity checks of the scan.
Tradable(md, p) ==
    /\ md[p[1]].city # md[p[2]].city
    /\ ~(FLe(md[p[1]].buy_price, Num(0)) \/ FLe(md[p[2]].sell_price, Num(0)))
    /\ Min(md[p[1]].quantity, md[p[2]].quantity) > 0

OppOf(md, p) ==
    calculate_opportunity(scanner, md[p[1]].item_id, md[p[1]].item_name, md[p[1]].city, md[p[2]].city, md[p[1]].buy_price, md[p[2]].sell_price, Min(md[p[1]].quantity, md[p[2]].quantity))

Qualifying(md, min_roi) ==
    { p \in PairsOf(md) : Tradable(md, p) /\ FGe(OppOf(md, p).roi, min_roi) }

Occurrences(v, o) == Cardinality({ i \in DOMAIN v : v[i] = o })

ScenarioA == Snapshot \in {<<XA, XB>>, <<XB, XA>>}

\* C1 as stated: Scenario A at min_roi 0 returns exactly one opportunity,
\* CityA to CityB, of quantity 30 and positive profit.
C1_ScenarioA_OnePositive ==
    (Returned /\ ScenarioA /\ args.min_roi = Num(0) /\ args.max_results >= 1)
    => /\ Len(Value) = 1
       /\ Value[1].buy_city = "CityA" /\ Value[1].sell_city = "CityB"
       /\ Value[1].quantity = 30
       /\ FGt(Value[1].profit, Num(0))

\* C1 amended: Scenario A at min_roi 0 returns nothing, because its one
\* tradable pair (CityA to CityB, quantity 30) pays 1200 for transport and
\* so has profit -150 and roi -250/73; at min_roi -5 the call returns that
\* pair alone.
C1_ScenarioA_Loss ==
    (Returned /\ ScenarioA)
    => /\ args.min_roi = Num(0) => Value = <<>>
       /\ (args.min_roi = Num(-5) /\ args.max_results >= 1)
          => /\ Len(Value) = 1
             /\ Value[1].buy_city = "CityA" /\ Value[1].sell_city = "CityB"
             /\ Value[1].quantity = 30
             /\ Value[1].transport_cost = Num(1200)
             /\ Value[1].profit = Num(-150)
             /\ Value[1].roi = Rat(-250, 73)

C1_Witness ==
    Returned /\ ScenarioA /\ args.min_roi = Num(0) /\ args.max_results >= 1

\* C2: every returned opportunity has roi >= min_roi, and nothing is
\* returned when every tradable pair's roi is below min_roi.
C2_RoiReachesMin ==
    Returned
    => /\ \A i \in DOMAIN Value : FGe(Value[i].roi, args.min_roi)
       /\ (\A p \in PairsOf(Snapshot) :
              Tradable(Snapshot, p)
              => FLt(OppOf(Snapshot, p).roi, args.min_roi))
          => Value = <<>>

C2_Witness ==
    /\ Returned
    /\ Value # <<>>
    /\ \E p \in PairsOf(Snapshot) :
          Tradable(Snapshot, p) /\ FLt(OppOf(Snapshot, p).roi, args.min_roi)

\* C3: the returned sequence is sorted by roi descending.
C3_SortedDescending ==
    Returned
    => \A i \in DOMAIN Value :
          i < Len(Value) => FGe(Value[i].roi, Value[i + 1].roi)

C3_Witness ==
    /\ Returned
    /\ Len(Value) = 2
    /\ Value[1].item_id # Value[2].item_id
    /\ FGt(Value[1].roi, Value[2].roi)

\* C4: with Q the qualifying pairs, the result has min(max_results, |Q|)
\* entries, each the opportunity of a pair of Q of its own, and no pair
\* left out has a higher roi than a returned one.
C4_TopOfQualifying ==
    Returned
    => LET Q == Qualifying(Snapshot, args.min_roi)
           opps == { OppOf(Snapshot, p) : p \in Q }
           inQ(o) == Cardinality({ p \in Q : OppOf(Snapshot, p) = o })
       IN  /\ Len(Value) = Min(args.max_results, Cardinality(Q))
           /\ \A i \in DOMAIN Value :
                 /\ Value[i] \in opps
                 /\ Occurrences(Value, Value[i]) <= inQ(Value[i])
           /\ \A o \in opps :
                 Occurrences(Value, o) < inQ(o)
                 => \A i \in DOMAIN Value : FLe(o.roi, Value[i].roi)

C4_Witness ==
    /\ Returned
    /\ args.max_results = 1
    /\ Len(Value) = 1
    /\ Cardinality({ OppOf(Snapshot, p).roi :
                       p \in Qualifying(Snapshot, args.min_roi) }) >= 3

\* C5 as stated: every returned opportunity has two cities, a positive
\* quantity and positive prices.
C5_PositivePrices ==
    Returned
    => \A i \in DOMAIN Value :
          /\ Value[i].buy_city # Value[i].sell_city
          /\ Value[i].quantity > 0
          /\ FGt(Value[i].buy_price, Num(0))
          /\ FGt(Value[i].sell_price, Num(0))

\* C6 as stated: every returned opportunity comes from a pair of quotes
\* with quantity the smaller of the two, and its profit, taxes and roi are
\* the stated expressions of its prices, quantity and transport cost.
C6_CostIdentity ==
    Returned
    => \A i \in DOMAIN Value :
          LET o == Value[i]
              q == Num(o.quantity)
              rate == FAdd(scanner.market_tax, scanner.setup_fee)
              buy == FMul(o.buy_price, q)
              sell == FMul(o.sell_price, q)
              totalCost == FAdd(FMul(buy, FAdd(Num(1), rate)), o.transport_cost)
          IN  /\ \E p \in PairsOf(Snapshot) :
                    /\ Snapshot[p[1]].city = o.buy_city
                    /\ Snapshot[p[2]].city = o.sell_city
                    /\ o.quantity = Min(Snapshot[p[1]].quantity, Snapshot[p[2]].quantity)
              /\ FEq(o.profit,
                     FSub(FSub(sell, FMul(sell, rate)),
                          FAdd(FAdd(buy, FMul(buy, rate)), o.transport_cost)))
              /\ FEq(o.taxes, FMul(FMul(FAdd(o.buy_price, o.sell_price), q), rate))
              /\ FEq(o.roi, FMul(FDiv(o.profit, totalCost), Num(100)))

\* C7 as stated: a call with the arguments of the call before it returns
\* the same sequence.
C7_SameSequence ==
    (Returned /\ prev.outcome.kind = "ok" /\ prev.args = args)
    => Value = prev.outcome.value

\* C8: a call ends with a result or with the decode error, never with the
\* panic of the sort's unwrap.
C8_NeverPanics ==
    outcome.kind \in {"pending", "ok", "Failed to parse market data"}

C8_Witness ==
    /\ Returned
    /\ Len(Value) >= 2
    /\ \E p \in PairsOf(Snapshot) :
          Tradable(Snapshot, p) /\ IsNaN(OppOf(Snapshot, p).roi)

\* C9 as stated: the rates stay those of construction, and a call with the
\* arguments of the call before it returns the same set of opportunities.
C9_SameSet ==
    /\ scanner = [market_tax |-> Rat(45, 1000), setup_fee |-> Rat(15, 1000)]
    /\ (Returned /\ prev.outcome.kind = "ok" /\ prev.args = args)
       => { Value[i] : i \in DOMAIN Value }
          = { prev.outcome.value[i] : i \in DOMAIN prev.outcome.value }

RoyalCities ==
    {"Bridgewatch", "Lymhurst", "Martlock", "Fort Sterling", "Thetford"}

ZoneDistance(a, b) ==
    IF \/ a = "Caerleon" /\ b \in RoyalCities
       \/ b = "Caerleon" /\ a \in RoyalCities
    THEN 8 ELSE 12

\* C10: the cost is distance * 100 * max(quantity / 100, 1) with the
\* symmetric distance 8 or 12, so it is the same in both directions, at
\* least distance * 100, and does not fall as the quantity grows.
C10_TransportCost ==
    probe.done
    => LET d == ZoneDistance(probe.from_city, probe.to_city)
           cost(a, b, q) == estimate_transport_cost(scanner, a, b, Num(q))
       IN  /\ probe.cost =
                 (IF probe.quantity >= 100
                  THEN Rat(d * 100 * probe.quantity, 100)
                  ELSE Num(d * 100))
           /\ probe.cost = cost(probe.to_city, probe.from_city, probe.quantity)
           /\ FGe(probe.cost, Num(d * 100))
           /\ \A q \in TransportQuantities :
                 q <= probe.quantity
                 => FLe(cost(probe.from_city, probe.to_city, q), probe.cost)

C10_Witness ==
    /\ probe.done
    /\ probe.from_city = "Thetford" /\ probe.to_city = "Caerleon"
    /\ probe.quantity = 250
    /\ probe.cost = Num(2000)

=============================================================================
